---- MODULE Spec2Model ----
(***************************************************************************)
(* Model of the three text-to-speech command-line scripts                  *)
(*   src/_prompts/1-tts.py  (vendor SDK client)                            *)
(*   src/_prompts/2-tts.py  (SDK-compatible client, fixed base URL)        *)
(*   src/_prompts/3-tts.py  (raw HTTPS POST through `requests`)            *)
(* One run of a script is a short linear state machine: parse the command  *)
(* line, check the credential, issue the request, compute the output file  *)
(* name, open and write the file, print the confirmation.  The command     *)
(* line, the environment, the endpoint's behaviour and the file system's   *)
(* behaviour are fixed by the initial state; what the SDK of scripts 1 and *)
(* 2 does inside `client.audio.speech.create` (how many attempts it makes, *)
(* which attribute of the response holds the audio) is not code of this    *)
(* repository and is left nondeterministic.                                *)
(*                                                                         *)
(* Strings that the code inspects (file names, base URLs) are sequences of *)
(* characters; opaque texts are TLA+ strings; bytes are sequences of       *)
(* one-character strings.                                                  *)
(***************************************************************************)
EXTENDS Integers, Sequences, FiniteSets, TLC

VARIABLES
    scripts,      \* the scripts that are run (each on its own copy of the file system)
    argv,         \* the command line, as argparse will classify it
    env,          \* os.environ: OPENAI_API_KEY and OPENAI_BASE_URL
    world,        \* how the endpoint and the file system behave in this run
    pc,           \* pc[v]: position of script v in main()
    args,         \* args[v]: the Namespace returned by parse_args()
    response,     \* response[v]: what client.audio.speech.create returned (scripts 1, 2)
    audio_data,   \* audio_data[v]
    output_file,  \* output_file[v]
    sent,         \* sent[v]: the HTTP requests issued so far, in order
    files,        \* files[v]: path -> bytes, the file system as script v sees it
    stdout,       \* stdout[v]: lines printed
    stderr,       \* stderr[v]: lines written to standard error
    exit_code     \* exit_code[v]: {} while running, {n} once the process ended with n

vars == <<scripts, argv, env, world, pc, args, response, audio_data,
          output_file, sent, files, stdout, stderr, exit_code>>

Scripts == {1, 2, 3}
SdkScripts == {1, 2}

-----------------------------------------------------------------------------
(* Characters and str methods                                              *)

UpperCase == <<"A","B","C","D","E","F","G","H","I","J","K","L","M",
               "N","O","P","Q","R","S","T","U","V","W","X","Y","Z">>
LowerCase == <<"a","b","c","d","e","f","g","h","i","j","k","l","m",
               "n","o","p","q","r","s","t","u","v","w","x","y","z">>

\* str.lower() on one character
LowerChar(c) ==
    IF \E i \in DOMAIN UpperCase : UpperCase[i] = c
    THEN LowerCase[CHOOSE i \in DOMAIN UpperCase : UpperCase[i] = c]
    ELSE c

\* str.lower()
Lower(s) == [i \in 1..Len(s) |-> LowerChar(s[i])]

\* str.upper() on one character (used only to build test names)
UpperChar(c) ==
    IF \E i \in DOMAIN LowerCase : LowerCase[i] = c
    THEN UpperCase[CHOOSE i \in DOMAIN LowerCase : LowerCase[i] = c]
    ELSE c

Upper(s) == [i \in 1..Len(s) |-> UpperChar(s[i])]

\* str.endswith(suffix)
EndsWith(s, suffix) ==
    /\ Len(suffix) <= Len(s)
    /\ SubSeq(s, Len(s) - Len(suffix) + 1, Len(s)) = suffix

\* str.rstrip('/')
RECURSIVE RStripSlash(_)
RStripSlash(s) ==
    IF s # <<>> /\ s[Len(s)] = "/" THEN RStripSlash(SubSeq(s, 1, Len(s) - 1)) ELSE s

-----------------------------------------------------------------------------
(* Command line: parse_args()                                              *)

wav  == <<"w","a","v">>
mp3  == <<"m","p","3">>
opus == <<"o","p","u","s">>
flac == <<"f","l","a","c">>

\* choices=["wav", "mp3", "opus", "flac"]
FormatChoices == {wav, mp3, opus, flac}

\* default="speech"
DefaultOutput == <<"s","p","e","e","c","h">>

\* default="wav"
DefaultFormat == wav

hello == <<"h","e","l","l","o">>

\* f".{args.format}"
DotFormat(format) == <<".">> \o format

\* mutant of OutputPath: the comparison without .lower()
OutputPathCaseSensitive(output, format) ==
    IF ~ EndsWith(output, DotFormat(format))
    THEN output \o DotFormat(format)
    ELSE output

\* Lines 134-137 of 3-tts.py (79-82 of 1-tts.py, 87-90 of 2-tts.py):
\*   output_file = args.output
\*   if not output_file.lower().endswith(f".{args.format}"):
\*       output_file = f"{output_file}.{args.format}"
OutputPath(output, format) ==
    IF ~ EndsWith(Lower(output), DotFormat(format))
    THEN output \o DotFormat(format)
    ELSE output

-----------------------------------------------------------------------------
(* Environment: os.getenv                                                  *)

Unset == [set |-> FALSE, val |-> <<>>]
Value(v) == [set |-> TRUE, val |-> v]

\* mutant of Falsy: `if api_key is None`, which lets the empty string through
FalsyNoneOnly(var) == ~ var.set

\* os.getenv(name): None when the variable is unset.  `not api_key` is true
\* for None and for the empty string.
Falsy(var) == ~ var.set \/ var.val = <<>>

\* os.getenv(name, default)
Getenv(var, default) == IF var.set THEN var.val ELSE default

\* DEFAULT_OPENAI_BASE_URL = "https://api.openai.com/v1"   (3-tts.py)
DEFAULT_OPENAI_BASE_URL == <<"https://api.openai.com/v1">>

\* OPENAI_BASE_URL = "https://api.openai.com/v1"           (2-tts.py)
OPENAI_BASE_URL == <<"https://api.openai.com/v1">>

-----------------------------------------------------------------------------
(* The request                                                             *)

\* mutant of TimeoutSeconds: no timeout given
NoTimeout == 60 - 60

\* timeout=60 in requests.post
TimeoutSeconds == 60

\* requests.post blocks for ever only when nothing ever comes back and no
\* timeout is given (timeout=None, modelled as 0)
Blocks(endpoint, timeout) == endpoint.kind = "silent" /\ timeout = 0

\* mutant of Url: the base URL used as it comes
UrlNoStrip(base_url) == base_url \o <<"/audio/speech">>

\* url = f"{base_url.rstrip('/')}/audio/speech"
Url(base_url) == RStripSlash(base_url) \o <<"/audio/speech">>

\* headers = {"Authorization": f"Bearer {api_key}", "Content-Type": "application/json"}
Headers(api_key) ==
    [Authorization |-> <<"Bearer ">> \o api_key, ContentType |-> "application/json"]

\* payload = {"model": model, "voice": voice, "input": text,
\*            "instructions": instructions, "response_format": audio_format}
\* with the defaults of request_tts for model, voice and instructions.
Payload(text, audio_format) ==
    [model           |-> "gpt-4o-mini-tts",
     voice           |-> "alloy",
     input           |-> text,
     instructions    |-> "Speak in a cheerful and positive tone.",
     response_format |-> audio_format]

\* requests.post(url, json=payload, headers=headers, timeout=60)
Request(api_key, text, audio_format, base_url) ==
    [method  |-> "POST",
     url     |-> Url(base_url),
     headers |-> Headers(api_key),
     json    |-> Payload(text, audio_format),
     timeout |-> TimeoutSeconds]

-----------------------------------------------------------------------------
(* JSON values and the error text of a non-200 response                    *)

Absent   == [t |-> "absent"]
JNull    == [t |-> "null"]
JStr(s)  == [t |-> "str", s |-> s]
JNum(n)  == [t |-> "num", n |-> n]
JList    == [t |-> "list"]
\* an object, as far as its keys "error" and "message" go
JObj(error, message) == [t |-> "obj", error |-> error, message |-> message]

Raised == [raised |-> TRUE, val |-> Absent]
Returned(v) == [raised |-> FALSE, val |-> v]

\* dict.get(key, default); any other value has no attribute `get`
GetKey(value, key, default) ==
    IF value.t # "obj" THEN Raised
    ELSE LET found == IF key = "error" THEN value.error ELSE value.message
         IN  Returned(IF found.t = "absent" THEN default ELSE found)

\* mutant of Truthy: `message if message is not None else response.text`
TruthyNotNone(value) == value.t # "null"

\* Python truthiness of a JSON value: None, "", 0, [] and {} are false
\* (the lists of the model are empty)
Truthy(value) ==
    CASE value.t = "null" -> FALSE
      [] value.t = "str"  -> value.s # ""
      [] value.t = "num"  -> value.n # 0
      [] value.t = "list" -> FALSE
      [] value.t = "obj"  -> value.error.t # "absent" \/ value.message.t # "absent"
      [] OTHER            -> TRUE

\* str(n) for the numbers of the model
IntText(n) ==
    CASE n = 0 -> "0" [] n = 7 -> "7" [] n = 200 -> "200" [] n = 201 -> "201"
      [] n = 400 -> "400" [] n = 500 -> "500" [] OTHER -> "?"

\* how an f-string renders the value
Format(value) ==
    CASE value.t = "str" -> value.s
      [] value.t = "num" -> IntText(value.n)
      [] OTHER           -> "{...}"

\* Lines 100-104 of 3-tts.py:
\*   message = ""
\*   try:
\*       message = response.json().get("error", {}).get("message", "")
\*   except Exception:
\*       pass
\* resp.json is Absent when the body is not JSON (response.json() raises).
Message(resp) ==
    IF resp.json.t = "absent" THEN JStr("")
    ELSE LET e == GetKey(resp.json, "error", JObj(Absent, Absent))
         IN  IF e.raised THEN JStr("")
             ELSE LET m == GetKey(e.val, "message", JStr(""))
                  IN  IF m.raised THEN JStr("") ELSE m.val

\* f"API error {response.status_code}: {message or response.text}"
ApiError(resp) ==
    [kind   |-> "API error",
     status |-> IntText(resp.status),
     detail |-> IF Truthy(Message(resp)) THEN Format(Message(resp)) ELSE resp.text]

\* mutant of NetworkError: the cause left out of the text
NetworkErrorNoCause(url, exc) ==
    [kind |-> "Network error while contacting", url |-> url, cause |-> ""]

\* f"Network error while contacting {url}: {exc}"
NetworkError(url, exc) ==
    [kind |-> "Network error while contacting", url |-> url, cause |-> exc]

-----------------------------------------------------------------------------
(* Inputs of a run                                                         *)

\* longest prefix put in front of a tail when sweeping output names
MaxPrefixLen == 1

PrefixChars == {"a", "."}

RECURSIVE SeqsUpTo(_, _)
SeqsUpTo(chars, n) ==
    IF n = 0 THEN {<<>>}
    ELSE LET shorter == SeqsUpTo(chars, n - 1)
         IN  shorter \cup {s \o <<c>> : s \in shorter, c \in chars}

\* first character upper-cased
Capitalize(s) == [i \in 1..Len(s) |-> IF i = 1 THEN UpperChar(s[i]) ELSE s[i]]

\* endings that do and do not count as the extension of `format`
Tails ==
    {<<>>} \cup UNION {
        { DotFormat(f), DotFormat(Upper(f)), DotFormat(Capitalize(f)), f,
          DotFormat(SubSeq(f, 1, Len(f) - 1)), DotFormat(f) \o <<"x">>,
          <<",">> \o f }
        : f \in FormatChoices }

SweepNames == {p \o t : p \in SeqsUpTo(PrefixChars, MaxPrefixLen), t \in Tails}

Parsed(text, output, format) ==
    [kind |-> "ok", text |-> text, output |-> output, format |-> format]

\* what argparse makes of sys.argv: a Namespace, a usage error (missing text,
\* a --format outside the choices, an unknown option), or -h/--help
ArgvCore ==
    { Parsed("Hello world", DefaultOutput, DefaultFormat),
      Parsed("Hello world", hello, mp3),
      Parsed("Bonjour", hello \o DotFormat(wav), wav),
      Parsed("Hello world", hello \o DotFormat(Upper(wav)), wav),
      Parsed("Bonjour", hello \o DotFormat(wav), flac),
      Parsed("", hello, opus),
      [kind |-> "usage", text |-> "", output |-> DefaultOutput, format |-> DefaultFormat],
      [kind |-> "help",  text |-> "", output |-> DefaultOutput, format |-> DefaultFormat] }

ArgvSweep == {Parsed("Hello world", n, f) : n \in SweepNames, f \in FormatChoices}

proxy == <<"http://localhost:8080/v1">>
secret == <<"sk-test">>

Keys  == {Unset, Value(<<>>), Value(secret)}
Bases == {Unset, Value(proxy), Value(proxy \o <<"/">>), Value(proxy \o <<"/", "/">>)}

Envs == [OPENAI_API_KEY : Keys, OPENAI_BASE_URL : Bases]

RIFF     == <<"R", "I", "F", "F">>
OldBytes == <<"o", "l", "d">>

\* a response: status, body bytes, body as text, body parsed as JSON (Absent
\* when it is not JSON)
Answer(status, content, text, json) ==
    [kind |-> "answer", status |-> status, content |-> content, text |-> text, json |-> json]

ErrorBody(status, text, json) == Answer(status, <<text>>, text, json)

ErrorBodies(status) ==
    { ErrorBody(status, "Bad Request", Absent),
      ErrorBody(status, "[]", JList),
      ErrorBody(status, "{}", JObj(Absent, Absent)),
      ErrorBody(status, "{\"error\":\"oops\"}", JObj(JStr("oops"), Absent)),
      ErrorBody(status, "{\"error\":null}", JObj(JNull, Absent)),
      ErrorBody(status, "{\"error\":{}}", JObj(JObj(Absent, Absent), Absent)),
      ErrorBody(status, "{\"error\":{\"message\":null}}",
                JObj(JObj(Absent, JNull), Absent)),
      ErrorBody(status, "{\"error\":{\"message\":\"\"}}",
                JObj(JObj(Absent, JStr("")), Absent)),
      ErrorBody(status, "{\"error\":{\"message\":0}}",
                JObj(JObj(Absent, JNum(0)), Absent)),
      ErrorBody(status, "{\"error\":{\"message\":7}}",
                JObj(JObj(Absent, JNum(7)), Absent)),
      ErrorBody(status, "{\"error\":{\"message\":\"bad input\"}}",
                JObj(JObj(Absent, JStr("bad input")), Absent)),
      ErrorBody(status, "{\"message\":\"top\"}", JObj(Absent, JStr("top"))) }

\* what the endpoint does with a request: the connection fails, nothing ever
\* comes back, or it answers
Endpoints ==
    { [kind |-> "fails", exc |-> "ConnectionError"],
      [kind |-> "silent", exc |-> "Timeout"],
      Answer(200, RIFF, "RIFF", Absent),
      Answer(200, <<>>, "", Absent),
      Answer(201, RIFF, "RIFF", Absent),
      ErrorBody(500, "Internal Server Error", Absent) }
    \cup ErrorBodies(400)

\* what the file system does with open(path, "wb") and with the write: `kept`
\* bytes reach the file before a failing write raises
DiskOk == [fault |-> "none", cause |-> "", kept |-> 0]
Disks ==
    { DiskOk,
      [fault |-> "open",  cause |-> "Permission denied", kept |-> 0],
      [fault |-> "write", cause |-> "No space left on device", kept |-> 0],
      [fault |-> "write", cause |-> "No space left on device", kept |-> 1] }

Worlds == [endpoint : Endpoints, disk : Disks, existing : BOOLEAN]

\* the files present before the run: none, or old files at both names the
\* output could get
InitialFiles ==
    IF world.existing
    THEN { [path |-> p, data |-> OldBytes]
           : p \in {argv.output, argv.output \o DotFormat(argv.format)} }
    ELSE {}

-----------------------------------------------------------------------------
(* File system                                                             *)

Exists(fs, path) == \E f \in fs : f.path = path

ReadFile(fs, path) == (CHOOSE f \in fs : f.path = path).data

\* the file at `path` holds exactly `data` afterwards, created if need be
Store(fs, path, data) ==
    {f \in fs : f.path # path} \cup {[path |-> path, data |-> data]}

\* mutant of OpenWb: the file opened without truncating it ("r+b"/"ab")
OpenKeep(fs, path) == IF Exists(fs, path) THEN fs ELSE Store(fs, path, <<>>)

\* open(path, "wb"): creates the file or truncates it to length zero
OpenWb(fs, path) == Store(fs, path, <<>>)

\* the leading bytes of `data` that reached the file before the write failed
Partial(data, kept) == SubSeq(data, 1, IF kept < Len(data) THEN kept ELSE Len(data))

\* f.write(data) on a file just opened: the bytes go in from position 0, and
\* whatever the file held beyond them stays
WriteAt(old, data) == data \o SubSeq(old, Len(data) + 1, Len(old))

-----------------------------------------------------------------------------
(* request_tts (3-tts.py) and the SDK call (1-tts.py, 2-tts.py)            *)

Fail(err) == [raised |-> TRUE, err |-> err, val |-> <<>>]
Return(val) == [raised |-> FALSE, err |-> [kind |-> ""], val |-> val]

\* mutant of request_tts: the status check left out
request_tts_unchecked(api_key, text, audio_format, base_url) ==
    LET e == world.endpoint
    IN  IF e.kind # "answer"
        THEN Fail(NetworkError(Url(base_url), e.exc))
        ELSE Return(e.content)

\* Lines 93-109 of 3-tts.py: what request_tts returns or raises, given what
\* the endpoint does.  requests.post raises a RequestException when the
\* connection fails and, after `timeout` seconds without an answer, a Timeout.
request_tts(api_key, text, audio_format, base_url) ==
    LET e == world.endpoint
    IN  IF e.kind # "answer"
        THEN Fail(NetworkError(Url(base_url), e.exc))
        ELSE IF e.status # 200
             THEN Fail(ApiError(e))
             ELSE Return(e.content)

\* The URL the SDK client posts to: its base URL with one trailing slash
\* ensured, then the path.
SdkUrl(base_url) ==
    (IF base_url # <<>> /\ base_url[Len(base_url)] = "/"
     THEN SubSeq(base_url, 1, Len(base_url) - 1) ELSE base_url) \o <<"/audio/speech">>

\* mutant of ClientBaseUrl: 2-tts.py honouring OPENAI_BASE_URL as well
ClientBaseUrlEnv(v) == Getenv(env.OPENAI_BASE_URL, DEFAULT_OPENAI_BASE_URL)

\* 1-tts.py builds OpenAI() with no arguments: the SDK takes the key from
\* OPENAI_API_KEY and the base URL from OPENAI_BASE_URL, else its default.
\* 2-tts.py builds OpenAI(api_key=api_key, base_url=OPENAI_BASE_URL).
ClientBaseUrl(v) ==
    IF v = 2 THEN OPENAI_BASE_URL
    ELSE Getenv(env.OPENAI_BASE_URL, DEFAULT_OPENAI_BASE_URL)

\* client.audio.speech.create(model=..., voice=..., input=args.text,
\*                            instructions=..., response_format=args.format)
SdkRequest(v, text, audio_format) ==
    [method  |-> "POST",
     url     |-> SdkUrl(ClientBaseUrl(v)),
     headers |-> Headers(env.OPENAI_API_KEY.val),
     json    |-> Payload(text, audio_format)]

\* the attributes a response object of some SDK version may have
Shapes == {"audio", "content", "read", "none"}

\* retries the SDK may make on its own after a failed attempt
MaxSdkRetries == 2

\* Lines 66-73 of 1-tts.py (74-81 of 2-tts.py):
\*   audio_data = getattr(response, "audio", None)
\*   if audio_data is None:
\*       if hasattr(response, "content"): audio_data = response.content
\*       elif hasattr(response, "read"):  audio_data = response.read()
\* None is modelled as a failed extraction.
ExtractAudio(resp) ==
    IF resp.shape \in {"audio", "content", "read"}
    THEN [found |-> TRUE, val |-> resp.content]
    ELSE [found |-> FALSE, val |-> <<>>]

-----------------------------------------------------------------------------
(* The steps of main()                                                     *)

NoResponse == [shape |-> "unset", content |-> <<>>]
NoArgs == [text |-> "", output |-> <<>>, format |-> <<>>]

\* The scripts share nothing (each has its own process, file system copy and
\* output streams), so when several are run they are run one after another,
\* 3-tts.py first.
Turn(v) == v \in scripts /\ \A u \in scripts : u > v => pc[u] = "done"

\* the process of script v ends with `code` after writing `line` to stderr
Die(v, line, code) ==
    /\ stderr' = [stderr EXCEPT ![v] = Append(@, line)]
    /\ exit_code' = [exit_code EXCEPT ![v] = {code}]
    /\ pc' = [pc EXCEPT ![v] = "done"]

\* an exception nobody catches: the interpreter prints the traceback to
\* stderr and the process ends with code 1
Uncaught(v, exc) == Die(v, [kind |-> "Traceback", exc |-> exc], 1)

\* args = parse_args(): argparse ends the process with code 2 and a usage
\* message on stderr when it rejects the command line, and with code 0 after
\* printing the help on stdout for -h/--help
ParseArgs(v) ==
    /\ Turn(v) /\ pc[v] = "start"
    /\ CASE argv.kind = "usage" ->
              /\ Die(v, [kind |-> "usage"], 2)
              /\ UNCHANGED <<args, stdout>>
         [] argv.kind = "help" ->
              /\ stdout' = [stdout EXCEPT ![v] = Append(@, [kind |-> "help"])]
              /\ exit_code' = [exit_code EXCEPT ![v] = {0}]
              /\ pc' = [pc EXCEPT ![v] = "done"]
              /\ UNCHANGED <<args, stderr>>
         [] OTHER ->
              /\ args' = [args EXCEPT ![v] =
                     [text |-> argv.text, output |-> argv.output, format |-> argv.format]]
              /\ pc' = [pc EXCEPT ![v] = "parsed"]
              /\ UNCHANGED <<stdout, stderr, exit_code>>
    /\ UNCHANGED <<scripts, argv, env, world, response, audio_data, output_file,
                   sent, files>>

\* Lines 116-119 of 3-tts.py (51-53 of 1-tts.py, 54-57 of 2-tts.py)
CheckKey(v) ==
    /\ Turn(v) /\ pc[v] = "parsed"
    /\ IF Falsy(env.OPENAI_API_KEY)
       THEN Die(v, [kind |-> "Error: OPENAI_API_KEY environment variable is not set."], 1)
       ELSE /\ pc' = [pc EXCEPT ![v] = "keyed"]
            /\ UNCHANGED <<stderr, exit_code>>
    /\ UNCHANGED <<scripts, argv, env, world, args, response, audio_data,
                   output_file, sent, files, stdout>>

\* Lines 121-132 of 3-tts.py: the call of request_tts and its except clause
RequestTts(v) ==
    /\ Turn(v) /\ pc[v] = "keyed" /\ v = 3
    /\ ~ Blocks(world.endpoint, TimeoutSeconds)
    /\ LET api_key  == env.OPENAI_API_KEY.val
           base_url == Getenv(env.OPENAI_BASE_URL, DEFAULT_OPENAI_BASE_URL)
           result   == request_tts(api_key, args[v].text, args[v].format, base_url)
       IN  /\ sent' = [sent EXCEPT ![v] =
                  Append(@, Request(api_key, args[v].text, args[v].format, base_url))]
           /\ IF result.raised
              THEN /\ Die(v, result.err, 1)
                   /\ UNCHANGED audio_data
              ELSE /\ audio_data' = [audio_data EXCEPT ![v] = result.val]
                   /\ pc' = [pc EXCEPT ![v] = "have_audio"]
                   /\ UNCHANGED <<stderr, exit_code>>
    /\ UNCHANGED <<scripts, argv, env, world, args, response, output_file,
                   files, stdout>>

\* What the SDK call may do with the endpoint's behaviour: return a response
\* object or raise.  It returns on 200 and raises when the connection fails,
\* when nothing comes back in time and on a status of 400 or above; what it
\* does with another status is left open.
SdkReturns(e) ==
    IF e.kind # "answer" THEN {FALSE}
    ELSE IF e.status = 200 THEN {TRUE}
    ELSE IF e.status >= 400 THEN {FALSE}
    ELSE BOOLEAN

\* Lines 55-64 of 1-tts.py (60-72 of 2-tts.py): the client is built and the
\* endpoint called.  Nothing catches what the SDK raises.  The SDK may have
\* repeated a failed request before giving up.
SpeechCreate(v) ==
    /\ Turn(v) /\ pc[v] = "keyed" /\ v \in SdkScripts
    /\ LET e   == world.endpoint
           req == SdkRequest(v, args[v].text, args[v].format)
       IN  \E returns \in SdkReturns(e) :
           IF returns
           THEN /\ sent' = [sent EXCEPT ![v] = Append(@, req)]
                /\ \E shape \in Shapes :
                      response' = [response EXCEPT ![v] =
                                      [shape |-> shape, content |-> e.content]]
                /\ pc' = [pc EXCEPT ![v] = "responded"]
                /\ UNCHANGED <<stderr, exit_code>>
           ELSE /\ \E attempts \in 1..(1 + MaxSdkRetries) :
                      sent' = [sent EXCEPT ![v] = @ \o [i \in 1..attempts |-> req]]
                /\ Uncaught(v, IF e.kind = "answer" THEN "APIStatusError"
                               ELSE "APIConnectionError")
                /\ UNCHANGED response
    /\ UNCHANGED <<scripts, argv, env, world, args, audio_data, output_file,
                   files, stdout>>

\* Lines 66-77 of 1-tts.py (74-85 of 2-tts.py)
RetrieveAudio(v) ==
    /\ Turn(v) /\ pc[v] = "responded"
    /\ LET got == ExtractAudio(response[v])
       IN  IF got.found
           THEN /\ audio_data' = [audio_data EXCEPT ![v] = got.val]
                /\ pc' = [pc EXCEPT ![v] = "have_audio"]
                /\ UNCHANGED <<stderr, exit_code>>
           ELSE /\ Die(v, [kind |-> "Error: Could not extract audio data from response."], 1)
                /\ UNCHANGED audio_data
    /\ UNCHANGED <<scripts, argv, env, world, args, response, output_file,
                   sent, files, stdout>>

\* Lines 134-137 of 3-tts.py (79-82 of 1-tts.py, 87-90 of 2-tts.py)
NameOutput(v) ==
    /\ Turn(v) /\ pc[v] = "have_audio"
    /\ output_file' = [output_file EXCEPT ![v] = OutputPath(args[v].output, args[v].format)]
    /\ pc' = [pc EXCEPT ![v] = "named"]
    /\ UNCHANGED <<scripts, argv, env, world, args, response, audio_data,
                   sent, files, stdout, stderr, exit_code>>

\* mutant of WriteFailed: the error swallowed, the run goes on to the
\* confirmation
WriteFailedIgnored(v, cause) ==
    /\ pc' = [pc EXCEPT ![v] = "written"]
    /\ UNCHANGED <<stderr, exit_code>>

\* An OSError while opening or writing: 3-tts.py catches it (lines 143-145)
\* and reports f"Error writing {output_file}: {exc}"; in 1-tts.py and
\* 2-tts.py nothing catches it.  The text of an OSError names the file.
WriteFailed(v, cause) ==
    IF v = 3
    THEN Die(v, [kind |-> "Error writing", path |-> output_file[v], cause |-> cause], 1)
    ELSE Die(v, [kind |-> "Traceback", exc |-> "OSError",
                 path |-> output_file[v], cause |-> cause], 1)

\* with open(output_file, "wb") as f:
OpenFile(v) ==
    /\ Turn(v) /\ pc[v] = "named"
    /\ IF world.disk.fault = "open"
       THEN /\ WriteFailed(v, world.disk.cause)
            /\ UNCHANGED files
       ELSE /\ files' = [files EXCEPT ![v] = OpenWb(@, output_file[v])]
            /\ pc' = [pc EXCEPT ![v] = "opened"]
            /\ UNCHANGED <<stderr, exit_code>>
    /\ UNCHANGED <<scripts, argv, env, world, args, response, audio_data,
                   output_file, sent, stdout>>

\*     f.write(audio_data)      (and the close at the end of the with block)
WriteFile(v) ==
    /\ Turn(v) /\ pc[v] = "opened"
    /\ IF world.disk.fault = "write"
       THEN /\ files' = [files EXCEPT ![v] =
                   Store(@, output_file[v],
                         WriteAt(ReadFile(@, output_file[v]),
                                 Partial(audio_data[v], world.disk.kept)))]
            /\ WriteFailed(v, world.disk.cause)
       ELSE /\ files' = [files EXCEPT ![v] =
                   Store(@, output_file[v],
                         WriteAt(ReadFile(@, output_file[v]), audio_data[v]))]
            /\ pc' = [pc EXCEPT ![v] = "written"]
            /\ UNCHANGED <<stderr, exit_code>>
    /\ UNCHANGED <<scripts, argv, env, world, args, response, audio_data,
                   output_file, sent, stdout>>

\* print(f"✔ Audio saved to {output_file}"), and main() returns
PrintSaved(v) ==
    /\ Turn(v) /\ pc[v] = "written"
    /\ stdout' = [stdout EXCEPT ![v] =
           Append(@, [kind |-> "Audio saved to", path |-> output_file[v]])]
    /\ exit_code' = [exit_code EXCEPT ![v] = {0}]
    /\ pc' = [pc EXCEPT ![v] = "done"]
    /\ UNCHANGED <<scripts, argv, env, world, args, response, audio_data,
                   output_file, sent, files, stderr>>

-----------------------------------------------------------------------------
(* Specifications                                                          *)

HappyEnv == [OPENAI_API_KEY |-> Value(secret), OPENAI_BASE_URL |-> Unset]
HappyWorld == [endpoint |-> Answer(200, RIFF, "RIFF", Absent), disk |-> DiskOk,
               existing |-> FALSE]

\* the state of the scripts in `run` before they start
Start(run) ==
    /\ scripts = run
    /\ pc = [v \in Scripts |-> IF v \in run THEN "start" ELSE "idle"]
    /\ args = [v \in Scripts |-> NoArgs]
    /\ response = [v \in Scripts |-> NoResponse]
    /\ audio_data = [v \in Scripts |-> <<>>]
    /\ output_file = [v \in Scripts |-> <<>>]
    /\ sent = [v \in Scripts |-> <<>>]
    /\ files = [v \in Scripts |-> InitialFiles]
    /\ stdout = [v \in Scripts |-> <<>>]
    /\ stderr = [v \in Scripts |-> <<>>]
    /\ exit_code = [v \in Scripts |-> {}]

CoreInputs ==
    /\ argv \in ArgvCore
    /\ env \in Envs
    /\ world \in Worlds

\* every output name of the sweep, with a key and an endpoint that answers
SweepInputs ==
    /\ argv \in ArgvSweep
    /\ env = HappyEnv
    /\ world = HappyWorld

\* one script is run
Init ==
    /\ CoreInputs \/ SweepInputs
    /\ \E v \in Scripts : Start({v})

\* the three scripts are run on the same command line, environment and world
InitAll ==
    /\ CoreInputs
    /\ Start(Scripts)

Next ==
    \E v \in Scripts :
        \/ ParseArgs(v)
        \/ CheckKey(v)
        \/ RequestTts(v)
        \/ SpeechCreate(v)
        \/ RetrieveAudio(v)
        \/ NameOutput(v)
        \/ OpenFile(v)
        \/ WriteFile(v)
        \/ PrintSaved(v)

Spec == Init /\ [][Next]_vars

SpecAll == InitAll /\ [][Next]_vars

\* a process that can take a step takes it: nothing in main() waits except
\* the request, which the timeout bounds
FairSpec == Init /\ [][Next]_vars /\ WF_vars(Next)

-----------------------------------------------------------------------------
(* Vocabulary of the properties, stated without the operators of the code  *)

NoCredential == ~ env.OPENAI_API_KEY.set \/ env.OPENAI_API_KEY.val = <<>>

Finished(v) == pc[v] = "done"

ExitedNonZero(v) == exit_code[v] # {} /\ 0 \notin exit_code[v]

TransportFailure == world.endpoint.kind # "answer"

Answered200 == world.endpoint.kind = "answer" /\ world.endpoint.status = 200

AnsweredNot200 == world.endpoint.kind = "answer" /\ world.endpoint.status # 200

\* two characters equal up to case
SameLetter(a, b) ==
    a = b \/ \E i \in DOMAIN UpperCase : {a, b} = {UpperCase[i], LowerCase[i]}

EndsWithIgnoringCase(name, suffix) ==
    /\ Len(suffix) <= Len(name)
    /\ \A i \in 1..Len(suffix) : SameLetter(name[Len(name) - Len(suffix) + i], suffix[i])

\* the output path the specification gives for name N and format F
ExpectedPath(name, format) ==
    IF EndsWithIgnoringCase(name, <<".">> \o format)
    THEN name
    ELSE name \o <<".">> \o format

\* the initial files with the file at `path` replaced by exactly `bytes`
FilesAfterWrite(path, bytes) ==
    {f \in InitialFiles : f.path # path} \cup {[path |-> path, data |-> bytes]}

Confirmation(path) == [kind |-> "Audio saved to", path |-> path]

speech_wav == <<"s","p","e","e","c","h",".","w","a","v">>
hello_mp3  == <<"h","e","l","l","o",".","m","p","3">>
hello_wav  == <<"h","e","l","l","o",".","w","a","v">>

-----------------------------------------------------------------------------
(* C1: in every run where OPENAI_API_KEY is unset or empty the program     *)
(* exits non-zero after a diagnostic on stderr, and no request is issued    *)
(* and no file written: the credential check comes before the client and    *)
(* the request in each of the three scripts.                                *)
(* As stated it fails for -h/--help, which exits 0 before the check.        *)
C1_Original ==
    \A v \in scripts :
        NoCredential =>
            /\ pc[v] \in {"start", "parsed", "done"}
            /\ sent[v] = <<>>
            /\ files[v] = InitialFiles
            /\ Finished(v) => ExitedNonZero(v) /\ stderr[v] # <<>>

\* C1, amended: the same for every run whose command line does not ask for
\* the help.
C1_NoCredentialNoRequest ==
    \A v \in scripts :
        (NoCredential /\ argv.kind # "help") =>
            /\ pc[v] \in {"start", "parsed", "done"}
            /\ sent[v] = <<>>
            /\ files[v] = InitialFiles
            /\ Finished(v) => ExitedNonZero(v) /\ stderr[v] # <<>>

C1_Witness ==
    \E v \in scripts :
        /\ env.OPENAI_API_KEY = Value(<<>>)
        /\ argv.kind = "ok"
        /\ world.existing
        /\ Finished(v) /\ exit_code[v] = {1}

-----------------------------------------------------------------------------
(* C2: with the credential present and the POST answered 200 with body B,  *)
(* 3-tts.py writes exactly B to the computed output path, overwriting an    *)
(* existing file, prints the confirmation and exits 0; the path is          *)
(* speech.wav for the default arguments and hello.mp3 for -o hello          *)
(* --format mp3.                                                            *)
(* As stated it fails when the file cannot be opened or written.            *)
C2_Ending(v) ==
    LET path == ExpectedPath(argv.output, argv.format)
    IN  /\ files[v] = FilesAfterWrite(path, world.endpoint.content)
        /\ stdout[v] = <<Confirmation(path)>>
        /\ exit_code[v] = {0}
        /\ (argv.output = DefaultOutput /\ argv.format = wav) => path = speech_wav
        /\ (argv.output = hello /\ argv.format = mp3) => path = hello_mp3

C2_Original ==
    (3 \in scripts /\ Finished(3) /\ ~ NoCredential /\ sent[3] # <<>> /\ Answered200)
        => C2_Ending(3)

\* C2, amended: the same provided the file system lets the file be opened
\* and written.
C2_WritesExactlyTheBody ==
    (/\ 3 \in scripts /\ Finished(3) /\ ~ NoCredential /\ sent[3] # <<>>
     /\ Answered200 /\ world.disk.fault = "none")
        => C2_Ending(3)

C2_Witness ==
    /\ 3 \in scripts /\ Finished(3) /\ exit_code[3] = {0}
    /\ world.existing /\ Answered200 /\ world.endpoint.content = RIFF
    /\ argv.output = hello /\ argv.format = mp3
    /\ [path |-> hello_mp3, data |-> OldBytes] \in InitialFiles
    /\ [path |-> hello_mp3, data |-> RIFF] \in files[3]

-----------------------------------------------------------------------------
(* C3: for every response whose status is not 200, 3-tts.py fails with a   *)
(* text that carries the status code and the nested error.message of the    *)
(* JSON body if there is one, else the raw response text (body not JSON,    *)
(* not an object, `error` not an object, message empty or null), and exits  *)
(* non-zero with that text on stderr; a 400 with                            *)
(* {"error":{"message":"bad input"}} gives a text containing "bad input".   *)
(* As stated it fails for a message that is present but false in Python     *)
(* (the number 0): the raw text is reported, not the message.               *)

\* error.message of the body, Absent when the body has none
NestedMessage(json) ==
    IF json.t = "obj" /\ json.error.t = "obj" THEN json.error.message ELSE Absent

MessageText(m) == IF m.t = "str" THEN m.s ELSE IntText(m.n)

\* "has a message" as the claim has it: there, and neither null nor empty
HasMessage(m) == m.t = "num" \/ (m.t = "str" /\ m.s # "")

\* "has a message" as the code has it: there, and true in Python
HasTrueMessage(m) == (m.t = "num" /\ m.n # 0) \/ (m.t = "str" /\ m.s # "")

C3_Reported(v, detail) ==
    /\ exit_code[v] = {1}
    /\ Len(stderr[v]) = 1
    /\ stderr[v][1].kind = "API error"
    /\ stderr[v][1].status = IntText(world.endpoint.status)
    /\ stderr[v][1].detail = detail
    /\ stdout[v] = <<>>

C3_Original ==
    (3 \in scripts /\ Finished(3) /\ sent[3] # <<>> /\ AnsweredNot200) =>
        LET m == NestedMessage(world.endpoint.json)
        IN  C3_Reported(3, IF HasMessage(m) THEN MessageText(m) ELSE world.endpoint.text)

\* C3, amended: the message is reported when it is present and true in
\* Python; a message that is empty, null, zero or otherwise false gives the
\* raw text.
C3_ErrorText ==
    (3 \in scripts /\ Finished(3) /\ sent[3] # <<>> /\ AnsweredNot200) =>
        LET m == NestedMessage(world.endpoint.json)
        IN  /\ C3_Reported(3, IF HasTrueMessage(m) THEN MessageText(m)
                              ELSE world.endpoint.text)
            /\ (world.endpoint.status = 400
                /\ world.endpoint.text = "{\"error\":{\"message\":\"bad input\"}}")
                   => stderr[3][1].detail = "bad input"

C3_Witness ==
    /\ 3 \in scripts /\ Finished(3)
    /\ world.endpoint.kind = "answer" /\ world.endpoint.status = 400
    /\ world.endpoint.text = "{\"error\":{\"message\":\"bad input\"}}"
    /\ stderr[3] = <<[kind |-> "API error", status |-> "400", detail |-> "bad input"]>>

-----------------------------------------------------------------------------
(* C4: when the request fails at transport level the program exits         *)
(* non-zero with a network-error diagnostic that wraps the cause, and no    *)
(* output file is created or written.  The text is that of 3-tts.py; in     *)
(* 1-tts.py and 2-tts.py the diagnostic is the traceback of what the SDK    *)
(* raised.                                                                  *)
C4_TransportFailure ==
    \A v \in scripts :
        TransportFailure =>
            /\ files[v] = InitialFiles
            /\ pc[v] \notin {"have_audio", "named", "opened", "written"}
            /\ (Finished(v) /\ sent[v] # <<>>) =>
                  /\ ExitedNonZero(v)
                  /\ stderr[v] # <<>>
                  /\ stdout[v] = <<>>
                  /\ v = 3 => stderr[v] =
                        <<[kind  |-> "Network error while contacting",
                           url   |-> sent[v][1].url,
                           cause |-> world.endpoint.exc]>>

C4_Witness ==
    /\ 3 \in scripts /\ Finished(3) /\ sent[3] # <<>>
    /\ world.endpoint.kind = "fails" /\ world.existing
    /\ stderr[3][1].cause = "ConnectionError"

-----------------------------------------------------------------------------
(* C5: every invocation ends with exit code 0 on success, with the         *)
(* confirmation on stdout, and with exit code 1 on any failure (missing     *)
(* credential, network error, non-200 response, file write error), with a   *)
(* diagnostic on stderr; a file write error is reported with the path and   *)
(* the cause; no run ends with another exit code, or with 0 without the     *)
(* output file having been written.                                         *)
(* As stated it fails for the command lines argparse ends itself: a usage   *)
(* error exits 2, and -h/--help exits 0 with no file written.               *)

\* the run of script v got audio bytes to write
GotAudio(v) ==
    /\ argv.kind = "ok" /\ ~ NoCredential /\ world.endpoint.kind = "answer"
    /\ IF v = 3 THEN world.endpoint.status = 200
       ELSE response[v].shape \in {"audio", "content", "read"}

C5_Success(v) ==
    LET path == ExpectedPath(argv.output, argv.format)
    IN  /\ exit_code[v] = {0}
        /\ stdout[v] = <<Confirmation(path)>>
        /\ stderr[v] = <<>>
        /\ [path |-> path, data |-> world.endpoint.content] \in files[v]

C5_Failure(v) ==
    /\ exit_code[v] = {1}
    /\ stderr[v] # <<>>
    /\ stdout[v] = <<>>

\* failures end with 1, and a write error names the path and the cause
C5_Failures(v) ==
    /\ (\/ NoCredential
        \/ TransportFailure
        \/ (v = 3 /\ AnsweredNot200)
        \/ (world.endpoint.kind = "answer" /\ world.endpoint.status >= 400)
        \/ (GotAudio(v) /\ world.disk.fault # "none")) => C5_Failure(v)
    /\ (GotAudio(v) /\ world.disk.fault # "none") =>
          /\ Len(stderr[v]) = 1
          /\ stderr[v][1].path = ExpectedPath(argv.output, argv.format)
          /\ stderr[v][1].cause = world.disk.cause
          /\ v = 3 => stderr[v][1].kind = "Error writing"

C5_Original ==
    \A v \in scripts :
        Finished(v) =>
            /\ (GotAudio(v) /\ C5_Success(v)) \/ C5_Failure(v)
            /\ C5_Failures(v)

\* C5, amended: the same for every command line the parser accepts; a
\* command line it rejects ends the run with exit code 2 and a usage message
\* on stderr, and -h/--help ends it with exit code 0 after the help on
\* stdout, both without a request or a file.
C5_ExitCodes ==
    \A v \in scripts :
        Finished(v) =>
            CASE argv.kind = "usage" ->
                    /\ exit_code[v] = {2} /\ stderr[v] = <<[kind |-> "usage"]>>
                    /\ stdout[v] = <<>> /\ sent[v] = <<>> /\ files[v] = InitialFiles
              [] argv.kind = "help" ->
                    /\ exit_code[v] = {0} /\ stdout[v] = <<[kind |-> "help"]>>
                    /\ stderr[v] = <<>> /\ sent[v] = <<>> /\ files[v] = InitialFiles
              [] OTHER ->
                    /\ (GotAudio(v) /\ C5_Success(v)) \/ C5_Failure(v)
                    /\ C5_Failures(v)

C5_Witness ==
    /\ 3 \in scripts /\ Finished(3)
    /\ GotAudio(3) /\ world.disk.fault = "write" /\ world.disk.kept = 1
    /\ world.endpoint.content = RIFF
    /\ exit_code[3] = {1}
    /\ stderr[3] = <<[kind |-> "Error writing", path |-> speech_wav,
                      cause |-> "No space left on device"]>>

-----------------------------------------------------------------------------
(* C6: for every output name N and format F the output path is N when N    *)
(* ends with ".F" compared case-insensitively and N followed by ".F"        *)
(* otherwise; the rule is idempotent (hello.wav with wav stays hello.wav)   *)
(* and its result always ends, case-insensitively, with ".F".               *)
C6_OutputPath ==
    \A v \in scripts :
        pc[v] \in {"named", "opened", "written"} =>
            LET N == args[v].output
                F == args[v].format
                P == output_file[v]
            IN  /\ F \in FormatChoices
                /\ P = ExpectedPath(N, F)
                /\ OutputPath(P, F) = P
                /\ EndsWithIgnoringCase(P, <<".">> \o F)
                /\ (N = hello_wav /\ F = wav) => P = hello_wav

C6_Witness ==
    \E v \in scripts :
        /\ pc[v] = "named"
        /\ args[v].format = flac
        /\ args[v].output = <<"a", ".", "F", "L", "A", "C">>
        /\ output_file[v] = args[v].output

-----------------------------------------------------------------------------
(* C7: the request 3-tts.py issues is always a POST to                      *)
(* {base_url}/audio/speech, base_url being OPENAI_BASE_URL when set and     *)
(* https://api.openai.com/v1 otherwise, its trailing slashes removed, with  *)
(* header Authorization: Bearer {key} and a JSON body of exactly the five   *)
(* fields model, voice, input (the text unchanged), instructions and        *)
(* response_format (the chosen format, one of wav, mp3, opus, flac).        *)

\* s is base without its trailing slashes
StrippedOf(base, s) ==
    /\ s = <<>> \/ s[Len(s)] # "/"
    /\ \E k \in 0..Len(base) :
          /\ Len(s) = Len(base) - k
          /\ base = s \o [i \in 1..k |-> "/"]

ExpectedBase ==
    IF env.OPENAI_BASE_URL.set THEN env.OPENAI_BASE_URL.val
    ELSE <<"https://api.openai.com/v1">>

ExpectedJson(r) ==
    /\ DOMAIN r.json = {"model", "voice", "input", "instructions", "response_format"}
    /\ r.json.model = "gpt-4o-mini-tts"
    /\ r.json.voice = "alloy"
    /\ r.json.input = argv.text
    /\ r.json.instructions = "Speak in a cheerful and positive tone."
    /\ r.json.response_format = argv.format
    /\ r.json.response_format \in {wav, mp3, opus, flac}

C7_Request ==
    \A v \in scripts : \A i \in 1..Len(sent[v]) :
        LET r == sent[v][i]
        IN  /\ ExpectedJson(r)
            /\ r.headers.Authorization = <<"Bearer ">> \o env.OPENAI_API_KEY.val
            /\ v = 3 =>
                  /\ r.method = "POST"
                  /\ r.url # <<>>
                  /\ r.url[Len(r.url)] = "/audio/speech"
                  /\ StrippedOf(ExpectedBase, SubSeq(r.url, 1, Len(r.url) - 1))

C7_Witness ==
    /\ 3 \in scripts /\ Len(sent[3]) = 1
    /\ env.OPENAI_BASE_URL = Value(proxy \o <<"/", "/">>)
    /\ sent[3][1].url = <<"http://localhost:8080/v1", "/audio/speech">>
    /\ sent[3][1].json.input = "Bonjour"

-----------------------------------------------------------------------------
(* C8: the three scripts differ only in the client mechanism: for the same *)
(* arguments, environment, endpoint behaviour and file system behaviour     *)
(* all three send the request to the same endpoint and end in the same      *)
(* outcome: exit code, output file path and contents (or no file), and a    *)
(* diagnostic on stderr in the same cases.  Checked with the three scripts  *)
(* run on the same inputs (SpecAll).                                        *)
(* As stated it fails: 2-tts.py passes the fixed base URL to its client     *)
(* and so ignores OPENAI_BASE_URL, which 3-tts.py honours.                  *)

AllFinished == \A v \in scripts : Finished(v)

SameOutcome ==
    \A u, v \in scripts :
        /\ exit_code[u] = exit_code[v]
        /\ files[u] = files[v]
        /\ output_file[u] = output_file[v]
        /\ (stderr[u] = <<>>) <=> (stderr[v] = <<>>)
        /\ (stdout[u] = <<>>) <=> (stdout[v] = <<>>)

C8_Original ==
    /\ \A u, v \in scripts :
          (sent[u] # <<>> /\ sent[v] # <<>>) => sent[u][1].url = sent[v][1].url
    /\ AllFinished => SameOutcome

\* the SDK handed scripts 1 and 2 what the raw script takes from the same
\* answer: the status is 200 or an error status, and the response object
\* exposes its bytes
SdkAgrees ==
    /\ world.endpoint.kind = "answer" =>
          (world.endpoint.status = 200 \/ world.endpoint.status >= 400)
    /\ \A v \in scripts \cap SdkScripts : response[v].shape # "none"

\* C8, amended: 2-tts.py always posts to https://api.openai.com/v1/audio/speech
\* whatever OPENAI_BASE_URL is; with OPENAI_BASE_URL unset all three post to
\* that URL.  For the same arguments, environment, file system behaviour and
\* endpoint behaviour (200 with bytes, a status of 400 or above, a transport
\* failure) the three end with the same exit code, the same output file path
\* and contents (or no file) and a diagnostic on stderr in the same cases,
\* provided the SDK's response object exposes the bytes.
C8_SameOutcome ==
    /\ \A v \in scripts : \A i \in 1..Len(sent[v]) :
          (v = 2 \/ ~ env.OPENAI_BASE_URL.set) =>
              sent[v][i].url = <<"https://api.openai.com/v1", "/audio/speech">>
    /\ \A u, v \in scripts : \A i \in 1..Len(sent[u]) : \A j \in 1..Len(sent[v]) :
          /\ sent[u][i].json = sent[v][j].json
          /\ sent[u][i].headers = sent[v][j].headers
          /\ sent[u][i].method = sent[v][j].method
    /\ (AllFinished /\ SdkAgrees) => SameOutcome

C8_Witness ==
    /\ scripts = Scripts /\ AllFinished /\ SdkAgrees
    /\ env.OPENAI_BASE_URL = Value(proxy)
    /\ \A v \in scripts : exit_code[v] = {0} /\ sent[v] # <<>>
    /\ sent[2][1].url # sent[3][1].url
    /\ world.existing /\ world.endpoint.content = RIFF

-----------------------------------------------------------------------------
(* C9: in every run of 3-tts.py at most one HTTP request is issued: after  *)
(* a non-200 response, a transport failure or a timeout no second request   *)
(* is sent and nothing is recovered, the run is in its terminal failure     *)
(* state (diagnostic on stderr, non-zero exit); a request that is never     *)
(* answered ends as a timeout failure, and every run eventually terminates. *)
(* Checked under FairSpec.                                                  *)
C9_NoRetry ==
    3 \in scripts =>
        /\ Len(sent[3]) <= 1
        /\ (sent[3] # <<>> /\ ~ Answered200) =>
              /\ Finished(3)
              /\ ExitedNonZero(3)
              /\ stderr[3] # <<>>
              /\ stdout[3] = <<>>
              /\ audio_data[3] = <<>>
              /\ files[3] = InitialFiles
        /\ (sent[3] # <<>> /\ world.endpoint.kind = "silent") =>
              /\ Len(stderr[3]) = 1
              /\ stderr[3][1].kind = "Network error while contacting"
              /\ stderr[3][1].cause = "Timeout"

C9_OneRequestAndTermination ==
    /\ [] C9_NoRetry
    /\ [][Finished(3) => (Finished(3))' /\ UNCHANGED <<sent, exit_code, stderr>>]_vars
    /\ <> AllFinished

C9_Witness ==
    /\ 3 \in scripts /\ Finished(3) /\ Len(sent[3]) = 1
    /\ world.endpoint.kind = "silent"
    /\ exit_code[3] = {1}

-----------------------------------------------------------------------------
(* C10: the output file is opened for writing (and truncated) only after   *)
(* the status-200 response has been received: a run that ends in a          *)
(* configuration error, a non-200 response or a transport failure leaves    *)
(* the file system unchanged, so an existing file at the output path keeps  *)
(* its contents; and the confirmation is printed only after the write has   *)
(* completed.  For 1-tts.py and 2-tts.py "the response has been received"   *)
(* is the SDK call having returned it.                                      *)

Touched(v) == files[v] # InitialFiles \/ pc[v] \in {"opened", "written"}

\* the run of script v ended in one of the failures that precede the write
FailedBeforeWrite(v) ==
    /\ Finished(v)
    /\ \/ NoCredential
       \/ TransportFailure
       \/ (v = 3 /\ AnsweredNot200)
       \/ (v \in SdkScripts /\ response[v] = NoResponse)

====
